---- MODULE Spec2Model ----
(***************************************************************************)
(* The exterior-point optimizer of penrose (Optimizer.ts): step, minimize, *)
(* lbfgs, awLineSearch2, genOptProblem and their helpers.                  *)
(*                                                                         *)
(* Numbers are JavaScript numbers restricted to exact rationals n/d, NaN   *)
(* and +Infinity.  Every operation below is exact on the values the model  *)
(* feeds it (small integers and dyadic step lengths).                      *)
(***************************************************************************)
EXTENDS Integers, Sequences, FiniteSets, TLC

VARIABLES
    inputs,   \* genOptProblem's `inputs`: the InputMeta tag of every parameter
    state,    \* the State the caller holds (the latest one step returned)
    ret,      \* what the latest call of step did: returned or raised, and how
    ls,       \* awLineSearch2: its arguments, locals and position
    lb,       \* lbfgs: the LbfgsParams it is called on and its latest result
    oc        \* objectiveAndGradient: its arguments and its latest result

vars == <<inputs, state, ret, ls, lb, oc>>

-----------------------------------------------------------------------------
(* JavaScript numbers *)

RECURSIVE GCD(_, _)
GCD(a, b) == IF b = 0 THEN a ELSE GCD(b, a % b)

AbsInt(i) == IF i < 0 THEN -i ELSE i

\* the rational n/d in lowest terms
Q(n, d) ==
    LET g == GCD(AbsInt(n), d)
    IN  [k |-> "fin", n |-> n \div g, d |-> d \div g]

Num(i) == [k |-> "fin", n |-> i, d |-> 1]

NaN == [k |-> "nan", n |-> 0, d |-> 1]

Infinity == [k |-> "inf", n |-> 1, d |-> 1]

\* Number.isNaN: true of the number NaN only; any value of another type
\* (a string, undefined) is not NaN
NumberIsNaN(v) == v.k = "nan"

Neg(a) == IF a.k = "fin" THEN Q(-a.n, a.d) ELSE NaN

Add(a, b) ==
    IF a.k = "nan" \/ b.k = "nan" THEN NaN
    ELSE IF a.k = "inf" \/ b.k = "inf" THEN Infinity
    ELSE LET g == GCD(a.d, b.d)
         IN  Q(a.n * (b.d \div g) + b.n * (a.d \div g), (a.d \div g) * b.d)

\* a - b; the only infinite operand the optimizer subtracts from is b = Infinity
\* in |b - a| of the line search
Sub(a, b) ==
    IF a.k = "nan" \/ b.k = "nan" THEN NaN
    ELSE IF a.k = "inf" /\ b.k = "inf" THEN NaN
    ELSE IF a.k = "inf" THEN Infinity
    ELSE IF b.k = "inf" THEN [k |-> "ninf", n |-> -1, d |-> 1]
    ELSE Add(a, Neg(b))

Mul(a, b) ==
    IF a.k = "nan" \/ b.k = "nan" THEN NaN
    ELSE IF a.k = "fin" /\ b.k = "fin"
         THEN LET g1 == GCD(AbsInt(a.n), b.d)
                  g2 == GCD(AbsInt(b.n), a.d)
              IN  Q((a.n \div g1) * (b.n \div g2), (a.d \div g2) * (b.d \div g1))
    ELSE IF (a.k = "fin" /\ a.n = 0) \/ (b.k = "fin" /\ b.n = 0) THEN NaN
    ELSE Infinity

Half(a) == IF a.k = "fin" THEN Q(a.n, 2 * a.d) ELSE a

MathAbs(a) ==
    IF a.k = "fin" THEN Q(AbsInt(a.n), a.d)
    ELSE IF a.k = "ninf" THEN Infinity
    ELSE a

\* an/ad < bn/bd for an, bn >= 0 and ad, bd > 0, by continued fractions (no
\* product is formed)
RECURSIVE LtPos(_, _, _, _)
LtPos(an, ad, bn, bd) ==
    LET qa == an \div ad
        qb == bn \div bd
        ra == an % ad
        rb == bn % bd
    IN  IF qa # qb THEN qa < qb
        ELSE IF rb = 0 THEN FALSE
        ELSE IF ra = 0 THEN TRUE
        ELSE LtPos(bd, rb, ad, ra)

\* a < b; every comparison with NaN is false
Lt(a, b) ==
    IF a.k = "nan" \/ b.k = "nan" THEN FALSE
    ELSE IF a.k = "inf" THEN FALSE
    ELSE IF b.k = "inf" THEN TRUE
    ELSE IF a.k = "ninf" THEN b.k # "ninf"
    ELSE IF b.k = "ninf" THEN FALSE
    ELSE IF a.n < 0 /\ b.n >= 0 THEN TRUE
    ELSE IF a.n >= 0 /\ b.n < 0 THEN FALSE
    ELSE IF a.n >= 0 THEN LtPos(a.n, a.d, b.n, b.d)
    ELSE LtPos(-b.n, b.d, -a.n, a.d)

\* a <= b
Le(a, b) == a.k # "nan" /\ b.k # "nan" /\ ~Lt(b, a)

\* a > b, a >= b
Gt(a, b) == Lt(b, a)

Ge(a, b) == Le(b, a)

-----------------------------------------------------------------------------
(* utils/Util vectors: number[] as sequences of numbers *)

RECURSIVE SumSeq(_)
SumSeq(v) == IF v = <<>> THEN Num(0) ELSE Add(Head(v), SumSeq(Tail(v)))

addv(u, v) == [i \in DOMAIN u |-> Add(u[i], v[i])]

subv(u, v) == [i \in DOMAIN u |-> Sub(u[i], v[i])]

negv(u) == [i \in DOMAIN u |-> Neg(u[i])]

scalev(c, u) == [i \in DOMAIN u |-> Mul(c, u[i])]

dot(u, v) == SumSeq([i \in DOMAIN u |-> Mul(u[i], v[i])])

repeat(n, x) == [i \in 1..n |-> x]

\* normList(v) is the Euclidean norm sqrt(<v, v>); the model keeps its square,
\* and compares it with the square of the (non-negative) threshold
normListSq(v) == dot(v, v)

-----------------------------------------------------------------------------
(* awLineSearch2 *)

maxSteps == 10

minInterval_wide == Q(1, 100)

minInterval == Q(1, 1000000000)

c1 == Q(1, 1000)

c2 == Q(9, 10)

\* the locals of awLineSearch2 before its loop.  gradfxs0 is the (preconditioned)
\* gradient the caller passes, gradAtx0 is f(xs0).gradf
lsStart(gradfxs0, gradAtx0, fxs0) ==
    LET descentDir == negv(gradfxs0)
    IN  [descentDir |-> descentDir,
         fxs0       |-> fxs0,
         dufAtx0    |-> dot(descentDir, gradAtx0),
         a          |-> Num(0),
         b          |-> Infinity,
         t          |-> Num(1),
         i          |-> 0,
         brk        |-> FALSE]

\* objective <= fxs0 + c1 * ti * dufAtx0, fxs0 taken to the left-hand side
armijo(l, ti, objective) ==
    Le(Sub(objective, l.fxs0), Mul(Mul(c1, ti), l.dufAtx0))

weakWolfe(l, ti, gradient) ==
    Ge(dot(l.descentDir, gradient), Mul(c2, l.dufAtx0))

intervalTooSmall(ai, bi) == Lt(MathAbs(Sub(bi, ai)), minInterval)

tooManySteps_late(numUpdates) == numUpdates > maxSteps + 1

tooManySteps(numUpdates) == numUpdates > maxSteps

shouldStop(numUpdates, ai, bi) ==
    intervalTooSmall(ai, bi) \/ tooManySteps(numUpdates)

lsBody_oldBracket(l, out) ==
    LET isArmijo == armijo(l, l.t, out.f)
        isWolfe  == weakWolfe(l, l.t, out.gradf)
        a1 == IF isArmijo /\ ~isWolfe THEN l.t ELSE l.a
        b1 == IF ~isArmijo THEN l.t ELSE l.b
    IN  IF isArmijo /\ isWolfe
        THEN [l EXCEPT !.brk = TRUE]
        ELSE [l EXCEPT !.a = a1,
                       !.b = b1,
                       !.t = IF Lt(b1, Infinity) THEN Half(Add(a1, b1))
                             ELSE Mul(Num(2), l.a),
                       !.i = l.i + 1]

\* one pass through the body of the while loop, out = f(xs0 + t * descentDir)
lsBody(l, out) ==
    LET isArmijo == armijo(l, l.t, out.f)
        isWolfe  == weakWolfe(l, l.t, out.gradf)
        a1 == IF isArmijo /\ ~isWolfe THEN l.t ELSE l.a
        b1 == IF ~isArmijo THEN l.t ELSE l.b
    IN  IF isArmijo /\ isWolfe
        THEN [l EXCEPT !.brk = TRUE]
        ELSE [l EXCEPT !.a = a1,
                       !.b = b1,
                       !.t = IF Lt(b1, Infinity) THEN Half(Add(a1, b1))
                             ELSE Mul(Num(2), a1),
                       !.i = l.i + 1]

\* The line search as a process: the oracle f is any function, so every trial
\* evaluation returns any energy and any gradient.
LsNumbers == {NaN, Num(-1), Num(0), Num(1)}

LsVectors == {<<Num(1)>>, <<Num(-1)>>, <<Num(0)>>}

LsOutputs == {[f |-> e, gradf |-> g] : e \in LsNumbers,
              g \in LsVectors \cup {<<NaN>>}}

lsIdle == [pc |-> "idle"]

LsInit ==
    /\ inputs = <<>>
    /\ state = [optStatus |-> "none"]
    /\ ret = [kind |-> "none"]
    /\ lb = [pc |-> "idle"]
    /\ oc = [pc |-> "idle"]
    /\ \E gradfxs0 \in LsVectors, gradAtx0 \in {<<Num(1)>>}, fxs0 \in {Num(0)} :
        ls = [pc        |-> "loop",
              l         |-> lsStart(gradfxs0, gradAtx0, fxs0),
              evals     |-> 0,
              armijoAtT |-> "unknown",
              stop      |-> "no"]

\* while (!shouldStop(i, a, b, t)) { ... }: one trial evaluation of f
LsTrial ==
    /\ ls.pc = "loop"
    /\ ~shouldStop(ls.l.i, ls.l.a, ls.l.b)
    /\ \E out \in LsOutputs :
         LET l1 == lsBody(ls.l, out)
         IN  ls' = [ls EXCEPT !.l = l1,
                              !.evals = ls.evals + 1,
                              !.pc = IF l1.brk THEN "returned" ELSE "loop",
                              !.armijoAtT = IF l1.brk THEN "yes" ELSE "unknown",
                              !.stop = IF l1.brk THEN "break" ELSE "no"]
    /\ UNCHANGED <<inputs, state, ret, lb, oc>>

\* the loop condition fails: return t.  f was not evaluated at this t; whether
\* it satisfies Armijo there is up to the oracle
LsStop ==
    /\ ls.pc = "loop"
    /\ shouldStop(ls.l.i, ls.l.a, ls.l.b)
    /\ \E out \in LsOutputs :
         ls' = [ls EXCEPT !.pc = "returned",
                          !.armijoAtT = IF armijo(ls.l, ls.l.t, out.f)
                                        THEN "yes" ELSE "no",
                          !.stop = IF tooManySteps(ls.l.i) THEN "tooManySteps"
                                   ELSE "intervalTooSmall"]
    /\ UNCHANGED <<inputs, state, ret, lb, oc>>

LsNext == LsTrial \/ LsStop

SpecLS == LsInit /\ [][LsNext]_vars

-----------------------------------------------------------------------------
(* lbfgsInner, lbfgs *)

\* an optional value: lastState and lastGrad are undefined in defaultLbfgsParams
Undefined == [def |-> FALSE, val |-> <<>>]

Defined(v) == [def |-> TRUE, val |-> v]

MemSize == 2

defaultLbfgsParams ==
    [lastState        |-> Undefined,
     lastGrad         |-> Undefined,
     s_list           |-> <<>>,
     y_list           |-> <<>>,
     numUnconstrSteps |-> 0,
     memSize          |-> MemSize]

take_all(list, n) == list

\* _.take(list, n)
take(list, n) == SubSeq(list, 1, IF Len(list) < n THEN Len(list) ELSE n)

\* The scalars of the two-loop recursion (rho_i, alpha_i, beta_i, gamma_k) are
\* floating-point quotients by (y.s + EPSD) and (y.y + EPSD), EPSD = 1e-11, and
\* products of them: not rationals of the model's range.  The model computes the
\* sign of each exactly (EPSD is smaller than every non-zero |y.s| it forms) and
\* lets its magnitude be any of Magnitudes: Fl(x) is the set of values a scalar
\* whose exact sign is that of x can take.
Magnitudes == {Num(1)}

Fl(x) ==
    IF x.k # "fin" THEN {NaN}
    ELSE IF x.n = 0 THEN {Num(0)}
    ELSE IF x.n > 0 THEN Magnitudes
    ELSE {Neg(m) : m \in Magnitudes}

\* the sign of rho = 1 / (y.s + EPSD)
calculate_rho(s, y) ==
    LET ys == dot(y, s)
    IN  IF ys.k # "fin" THEN NaN ELSE IF ys.n >= 0 THEN Num(1) ELSE Num(-1)

\* gamma_k = s.y / (y.y + EPSD); h_0_k is gamma_k times the identity
estimate_hess(y_km1, s_km1) ==
    IF dot(y_km1, y_km1).k # "fin" THEN {NaN} ELSE Fl(dot(s_km1, y_km1))

\* curr = [rho_i, s_i, y_i]; alpha_i = rho_i * s_i.q
pull_q_back(acc, curr) ==
    {[q |-> subv(acc.q, scalev(alpha_i, curr[3])),
      alphas |-> Append(acc.alphas, alpha_i)] :
        alpha_i \in Fl(Mul(curr[1], dot(curr[2], acc.q)))}

\* beta_i = rho_i * y_i.r_i
push_r_forward(r_i, rho_i, alpha_i, s_i, y_i) ==
    {addv(r_i, scalev(Sub(alpha_i, beta_i), s_i)) :
        beta_i \in Fl(Mul(rho_i, dot(y_i, r_i)))}

\* zip3(rhos, ss, ys).reduce(pull_q_back, [q_k, []]), from pair i on
RECURSIVE Backward(_, _, _, _, _)
Backward(rhos, ss, ys, i, accs) ==
    IF i > Len(ss) THEN accs
    ELSE Backward(rhos, ss, ys, i + 1,
                  UNION {pull_q_back(acc, <<rhos[i], ss[i], ys[i]>>) : acc \in accs})

\* inputs.reverse().reduce(push_r_forward, r_k_minus_m), pair i being the next
RECURSIVE Forward(_, _, _, _, _, _)
Forward(rhos, alphas, ss, ys, i, rs) ==
    IF i < 1 THEN rs
    ELSE Forward(rhos, alphas, ss, ys, i - 1,
                 UNION {push_r_forward(r, rhos[i], alphas[i], ss[i], ys[i]) : r \in rs})

\* the values lbfgsInner can return
lbfgsInner(grad_fx_k, ss, ys) ==
    LET rhos == [i \in 1..Len(ss) |-> calculate_rho(ss[i], ys[i])]
        backs == Backward(rhos, ss, ys, 1, {[q |-> grad_fx_k, alphas |-> <<>>]})
    IN  UNION {Forward(rhos, back.alphas, ss, ys, Len(ss),
                       {scalev(gamma_k, back.q)}) :
                 back \in backs, gamma_k \in estimate_hess(ys[1], ss[1])}

\* the results of lbfgs(xs, gradfxs, lbfgsInfo): what it returns, or that it throws
descentDirCheck_sign(gradPreconditioned, gradfxs) ==
    dot(gradPreconditioned, gradfxs)

\* const descentDirCheck = -1.0 * dot(gradPreconditioned, gradfxs)
descentDirCheck(gradPreconditioned, gradfxs) ==
    Mul(Num(-1), dot(gradPreconditioned, gradfxs))

\* numUnconstrSteps === 0, or lastState and lastGrad are both defined
validLbfgsInfo(lbfgsInfo) ==
    lbfgsInfo.numUnconstrSteps > 0 =>
        (lbfgsInfo.lastState.def /\ lbfgsInfo.lastGrad.def)

invalidLbfgsState_initial(xs, gradfxs, lbfgsInfo) ==
    {[raised |-> FALSE,
      branch |-> "initial",
      gradfxsPreconditioned |-> gradfxs,
      updatedLbfgsInfo |->
          [lbfgsInfo EXCEPT !.lastState = Defined(xs),
                            !.lastGrad = Defined(gradfxs),
                            !.s_list = <<>>,
                            !.y_list = <<>>,
                            !.numUnconstrSteps = 1]]}

\* throw Error("Invalid L-BFGS state")
invalidLbfgsState(xs, gradfxs, lbfgsInfo) ==
    {[raised |-> TRUE,
      branch |-> "Invalid L-BFGS state",
      gradfxsPreconditioned |-> gradfxs,
      updatedLbfgsInfo |-> lbfgsInfo]}

lbfgs(xs, gradfxs, lbfgsInfo) ==
    IF lbfgsInfo.numUnconstrSteps = 0
    THEN {[raised |-> FALSE,
           branch |-> "initial",
           gradfxsPreconditioned |-> gradfxs,
           updatedLbfgsInfo |->
               [lbfgsInfo EXCEPT !.lastState = Defined(xs),
                                 !.lastGrad = Defined(gradfxs),
                                 !.s_list = <<>>,
                                 !.y_list = <<>>,
                                 !.numUnconstrSteps = 1]]}
    ELSE IF lbfgsInfo.lastState.def /\ lbfgsInfo.lastGrad.def
    THEN LET km1    == lbfgsInfo.numUnconstrSteps
             s_km1  == subv(xs, lbfgsInfo.lastState.val)
             y_km1  == subv(gradfxs, lbfgsInfo.lastGrad.val)
             ss_km1 == take(<<s_km1>> \o lbfgsInfo.s_list, lbfgsInfo.memSize)
             ys_km1 == take(<<y_km1>> \o lbfgsInfo.y_list, lbfgsInfo.memSize)
         IN  {IF Gt(descentDirCheck(gradPreconditioned, gradfxs), Num(0))
                  THEN [raised |-> FALSE,
                        branch |-> "reset",
                        gradfxsPreconditioned |-> gradfxs,
                        updatedLbfgsInfo |->
                            [lbfgsInfo EXCEPT !.lastState = Defined(xs),
                                              !.lastGrad = Defined(gradfxs),
                                              !.s_list = <<>>,
                                              !.y_list = <<>>,
                                              !.numUnconstrSteps = 1]]
                  ELSE [raised |-> FALSE,
                        branch |-> "update",
                        gradfxsPreconditioned |-> gradPreconditioned,
                        updatedLbfgsInfo |->
                            [lbfgsInfo EXCEPT !.lastState = Defined(xs),
                                              !.lastGrad = Defined(gradfxs),
                                              !.s_list = ss_km1,
                                              !.y_list = ys_km1,
                                              !.numUnconstrSteps = km1 + 1]] :
                gradPreconditioned \in lbfgsInner(gradfxs, ss_km1, ys_km1)}
    ELSE invalidLbfgsState(xs, gradfxs, lbfgsInfo)

\* lbfgs as a process: minimize calls it once per iteration with the current
\* point and gradient, on the LbfgsParams the previous call returned.
MaxUnconstrSteps == 4

LbPoints == {<<Num(0), Num(0)>>, <<Num(1), Num(2)>>}

LbGradients == {<<Num(0), Num(0)>>, <<Num(1), Num(0)>>, <<Num(-1), Num(1)>>,
                <<NaN, Num(0)>>}

lbIdle == [pc |-> "idle"]

LbInit ==
    /\ inputs = <<>>
    /\ state = [optStatus |-> "none"]
    /\ ret = [kind |-> "none"]
    /\ ls = lsIdle
    /\ oc = [pc |-> "idle"]
    /\ \E m \in 1..MemSize :
        lb = [pc      |-> "ready",
              info    |-> [defaultLbfgsParams EXCEPT !.memSize = m],
              xs      |-> <<>>,
              gradfxs |-> <<>>,
              branch  |-> "none",
              gradfxsPreconditioned |-> <<>>]

LbCall ==
    /\ lb.pc = "ready"
    /\ lb.info.numUnconstrSteps < MaxUnconstrSteps
    /\ \E xs \in LbPoints, gradfxs \in LbGradients :
         \E res \in lbfgs(xs, gradfxs, lb.info) :
            lb' = [lb EXCEPT !.info = res.updatedLbfgsInfo,
                             !.xs = xs,
                             !.gradfxs = gradfxs,
                             !.branch = res.branch,
                             !.gradfxsPreconditioned = res.gradfxsPreconditioned]
    /\ UNCHANGED <<inputs, state, ret, ls, oc>>

LbNext == LbCall

SpecLbfgs == LbInit /\ [][LbNext]_vars

-----------------------------------------------------------------------------
(* evalEnergyOnCustom, genOptProblem: the energy and the oracle factory *)

weightGrowthFactor == 10

constraintWeight == 100000

\* engine/EngineUtils: the initial exterior-point weight
initConstraintWeight == Num(1)

\* fns.toPenalty: max(v, 0)^2
toPenalty(v) ==
    IF NumberIsNaN(v) THEN NaN
    ELSE IF Gt(v, Num(0)) THEN Mul(v, v) ELSE Num(0)

\* ops.vsum
vsum(v) == SumSeq(v)

\* the value of the energy graph at EP weight epWeight, objEngs and constrEngs
\* being the values of the objective and constraint terms
evalEnergyOnCustom(epWeight, objEngs, constrEngs) ==
    LET constrWeightNode == Num(constraintWeight)
        objEng    == vsum(objEngs)
        constrEng == vsum([i \in DOMAIN constrEngs |-> toPenalty(constrEngs[i])])
    IN  Add(objEng, Mul(constrEng, Mul(constrWeightNode, epWeight)))

\* frozenValues?: Set<number>, possibly omitted.  Indices count from 1.
NoFrozen == [def |-> FALSE, val |-> {}]

Frozen(set) == [def |-> TRUE, val |-> set]

\* f = genCode(explicitGraph) called on [...xs, epWeight].  The graph is built
\* outside this file: at a point, its terms take the values `terms` and its
\* symbolic gradient the values `gradient` (a function on the indices the
\* gradient array has: an input the graph does not use leaves a hole).
Compiled(epWeight, terms, gradient) ==
    [primary   |-> evalEnergyOnCustom(epWeight, terms.objEngs, terms.constrEngs),
     gradient  |-> gradient,
     secondary |-> terms.objEngs \o terms.constrEngs,
     numObjEngs |-> Len(terms.objEngs)]

objectiveAndGradient_tagOnly(ins, frozenValues, xs, out) ==
    [f |-> out.primary,
     gradf |-> [i \in DOMAIN xs |->
                  IF i \notin DOMAIN out.gradient THEN Num(0)
                  ELSE IF ins[i] = "Optimized" THEN out.gradient[i] ELSE Num(0)],
     objEngs |-> SubSeq(out.secondary, 1, out.numObjEngs),
     constrEngs |-> SubSeq(out.secondary, out.numObjEngs + 1, Len(out.secondary))]

\* objectiveAndGradient(epWeight, frozenValues)(xs), `out` being
\* f([...xs, epWeight])
objectiveAndGradient(ins, frozenValues, xs, out) ==
    [f |-> out.primary,
     gradf |-> [i \in DOMAIN xs |->
                  IF i \notin DOMAIN out.gradient THEN Num(0)
                  ELSE IF /\ ins[i] = "Optimized"
                          /\ frozenValues.def
                          /\ i \notin frozenValues.val
                       THEN out.gradient[i]
                       ELSE Num(0)],
     objEngs |-> SubSeq(out.secondary, 1, out.numObjEngs),
     constrEngs |-> SubSeq(out.secondary, out.numObjEngs + 1, Len(out.secondary))]

\* The oracle factory as a function: any tags, any weight, any frozen argument,
\* any values of the compiled graph.
Indices == {1, 2}

InputTags == {"Optimized", "Pending"}

GradientValues == {Num(0), Num(2), Num(-1), NaN}

CompiledGradients ==
    UNION {[dom -> GradientValues] : dom \in SUBSET Indices}

TermValues ==
    {[objEngs |-> <<o>>, constrEngs |-> <<c>>] :
        o \in {Num(1), NaN}, c \in {Num(-1), Num(1)}}

ocIdle == [pc |-> "idle"]

OcInit ==
    /\ inputs \in [Indices -> InputTags]
    /\ state = [optStatus |-> "none"]
    /\ ret = [kind |-> "none"]
    /\ ls = lsIdle
    /\ lb = lbIdle
    /\ \E epWeight \in {initConstraintWeight, Mul(Num(weightGrowthFactor), initConstraintWeight)},
          frozenValues \in {NoFrozen} \cup {Frozen(fs) : fs \in SUBSET Indices} :
         oc = [pc           |-> "bound",
               epWeight     |-> epWeight,
               frozenValues |-> frozenValues,
               gradient     |-> <<>>,
               res          |-> [gradf |-> <<>>]]

\* one evaluation of the oracle
OcCall ==
    /\ oc.pc = "bound"
    /\ \E xs \in {<<Num(10), Num(7)>>}, terms \in TermValues,
          gradient \in CompiledGradients :
         oc' = [oc EXCEPT
                  !.pc = "evaluated",
                  !.gradient = gradient,
                  !.res = objectiveAndGradient(inputs, oc.frozenValues, xs,
                              Compiled(oc.epWeight, terms, gradient))]
    /\ UNCHANGED <<inputs, state, ret, ls, lb>>

OcNext == OcCall

SpecOracle == OcInit /\ [][OcNext]_vars

-----------------------------------------------------------------------------
(* containsNaN, minimize *)

uoStop == Q(1, 100)

epStop == Q(1, 1000)

MIN_STEPS == 1

\* the property names `for (const n in numberList)` enumerates: the indices of
\* the array, as strings
Keys(numberList) == {[k |-> "string", n |-> i - 1, d |-> 1] : i \in DOMAIN numberList}

containsNaN(numberList) == \E n \in Keys(numberList) : NumberIsNaN(n)

unconstrainedConverged2_gt(normGrad) == Gt(normGrad, uoStop)

unconstrainedConverged2(normGrad) == Lt(normGrad, uoStop)

\* normList(v) < eps, for eps > 0
normListLt(v, eps) ==
    /\ \A i \in DOMAIN v : Lt(MathAbs(v[i]), eps)
    /\ Lt(normListSq(v), Mul(eps, eps))

epConverged2_and(xs0, xs1, fxs0, fxs1) ==
    LET energyChange == MathAbs(Sub(fxs1, fxs0))
    IN  normListLt(subv(xs1, xs0), epStop) /\ Lt(energyChange, epStop)

epConverged2(xs0, xs1, fxs0, fxs1) ==
    LET energyChange == MathAbs(Sub(fxs1, fxs0))
    IN  normListLt(subv(xs1, xs0), epStop) \/ Lt(energyChange, epStop)

\* The oracle f = objectiveAndGradient(epWeight, frozenValues) a State holds is
\* the closure [epWeight, frozenValues].  During one iteration of minimize the
\* compiled graph is any function with the values w.here at the current point
\* xs and the values w.there at every other point.
Oracle(ins, closure, xs, w, zs) ==
    LET v == IF zs = xs THEN w.here ELSE w.there
    IN  objectiveAndGradient(ins, closure.frozenValues, zs,
                             Compiled(closure.epWeight, v.terms, v.gradient))

\* the while loop of awLineSearch2, from the locals l on
RECURSIVE lsLoop(_, _, _, _, _)
lsLoop(ins, closure, xs0, w, l) ==
    IF l.brk \/ shouldStop(l.i, l.a, l.b) THEN l.t
    ELSE lsLoop(ins, closure, xs0, w,
                lsBody(l, Oracle(ins, closure, xs0, w,
                                 addv(xs0, scalev(l.t, l.descentDir)))))

awLineSearch2(ins, closure, w, xs0, gradfxs0, fxs0) ==
    lsLoop(ins, closure, xs0, w,
           lsStart(gradfxs0, Oracle(ins, closure, xs0, w, xs0).gradf, fxs0))

\* some entry of xs is NaN
hasNaN(xs) == \E i \in DOMAIN xs : NumberIsNaN(xs[i])

\* the locals of minimize before its loop; lbfgsCalls, nanGradient, nanEnergy
\* and updatedAfterNaN record what the loop has done so far
minStart(xs0, lbfgsInfo) ==
    [xs |-> xs0,
     fxs |-> Num(0),
     gradfxs |-> repeat(Len(xs0), Num(0)),
     gradientPreconditioned |-> repeat(Len(xs0), Num(0)),
     normGradfxs |-> Num(0),
     i |-> 0,
     failed |-> FALSE,
     objEngs |-> <<>>,
     constrEngs |-> <<>>,
     newLbfgsInfo |-> lbfgsInfo,
     raised |-> "no",
     exit |-> "no",
     lbfgsCalls |-> 0,
     nanGradient |-> FALSE,
     nanEnergy |-> FALSE,
     updatedAfterNaN |-> FALSE,
     evalXs |-> xs0,
     updatesAfterEval |-> 0,
     t |-> Num(0)]

isFailed_energyOnly(fxs, normGrad) == NumberIsNaN(fxs)

\* Number.isNaN(fxs) || Number.isNaN(normGrad)
isFailed(fxs, normGrad) == NumberIsNaN(fxs) \/ NumberIsNaN(normGrad)

BREAK_EARLY_off == FALSE

BREAK_EARLY == TRUE

\* one pass through the body of the while loop of minimize, in world w: the
\* locals after it, `exit` telling how the pass left the loop if it did
minBody(ins, closure, m, w) ==
    IF containsNaN(m.xs)
    THEN {[m EXCEPT !.raised = "NaN in xs", !.exit = "throw"]}
    ELSE
    LET out == Oracle(ins, closure, m.xs, w, m.xs)
        m1  == [m EXCEPT !.fxs = out.f, !.gradfxs = out.gradf,
                         !.objEngs = out.objEngs, !.constrEngs = out.constrEngs,
                         !.nanGradient = @ \/ hasNaN(out.gradf),
                         !.nanEnergy = @ \/ NumberIsNaN(out.f),
                         !.evalXs = m.xs,
                         !.updatesAfterEval = 0]
    IN  IF containsNaN(out.gradf)
        THEN {[m1 EXCEPT !.raised = "NaN in gradfxs", !.exit = "throw"]}
        ELSE
        {IF res.raised
         THEN [m1 EXCEPT !.raised = res.branch, !.exit = "throw"]
         ELSE
         LET gradfxsPreconditioned == res.gradfxsPreconditioned
             m2 == [m1 EXCEPT !.newLbfgsInfo = res.updatedLbfgsInfo,
                              !.lbfgsCalls = @ + 1,
                              !.gradientPreconditioned = gradfxsPreconditioned,
                              !.normGradfxs = dot(out.gradf, gradfxsPreconditioned)]
         IN  IF BREAK_EARLY /\ unconstrainedConverged2(m2.normGradfxs)
             THEN [m2 EXCEPT !.exit = "break"]
             ELSE
             LET t == awLineSearch2(ins, closure, w, m.xs,
                                    gradfxsPreconditioned, out.f)
                 normGrad == normListSq(out.gradf)
             IN  IF isFailed(out.f, normGrad)
                 THEN [m2 EXCEPT !.failed = TRUE, !.exit = "failed"]
                 ELSE [m2 EXCEPT
                         !.xs = [j \in DOMAIN m.xs |->
                                   Sub(m.xs[j], Mul(t, gradfxsPreconditioned[j]))],
                         !.i = m.i + 1,
                         !.updatedAfterNaN = m1.nanGradient,
                         !.updatesAfterEval = @ + 1,
                         !.t = t] :
           res \in lbfgs(m.xs, out.gradf, m.newLbfgsInfo)}

\* what the compiled graph can evaluate to during one iteration
HereValues ==
    {[terms |-> [objEngs |-> <<o>>, constrEngs |-> <<Num(-1)>>], gradient |-> g] :
        o \in {Num(0), NaN}, g \in {<<Num(0), Num(0)>>, <<Num(2), Num(-1)>>}}
    \cup {[terms |-> [objEngs |-> <<Num(0)>>, constrEngs |-> <<Num(1)>>],
           gradient |-> <<Num(2), Num(-1)>>],
          [terms |-> [objEngs |-> <<Num(0)>>, constrEngs |-> <<Num(-1)>>],
           gradient |-> <<NaN, Num(0)>>]}

ThereValues ==
    {[terms |-> [objEngs |-> <<Num(-1000)>>, constrEngs |-> <<Num(-1)>>],
      gradient |-> <<Num(0), Num(0)>>]}

Worlds ==
    {[here |-> h, there |-> th] : h \in HereValues, th \in ThereValues}

RECURSIVE minLoop_offByOne(_, _, _, _)
minLoop_offByOne(ins, closure, ms, numSteps) ==
    LET live == {m \in ms : m.exit = "no" /\ m.i <= numSteps}
    IN  IF live = {} THEN ms
        ELSE minLoop_offByOne(ins, closure,
                     (ms \ live) \cup
                       UNION {minBody(ins, closure, m, w) : m \in live, w \in Worlds},
                     numSteps)

\* while (i < numSteps) { ... }: the locals at the exit of the loop
RECURSIVE minLoop(_, _, _, _)
minLoop(ins, closure, ms, numSteps) ==
    LET live == {m \in ms : m.exit = "no" /\ m.i < numSteps}
    IN  IF live = {} THEN ms
        ELSE minLoop(ins, closure,
                     (ms \ live) \cup
                       UNION {minBody(ins, closure, m, w) : m \in live, w \in Worlds},
                     numSteps)

\* minimize from its loop on: the OptInfo it returns, or the error it throws
\* (raised); exit and iterations tell how the loop ended
minimizeLoop(ins, closure, xs0, lbfgsInfo, numSteps) ==
         {IF m.raised # "no" THEN [raised |-> m.raised]
          ELSE [raised |-> "no",
                xs |-> m.xs,
                energyVal |-> m.fxs,
                normGrad |-> m.normGradfxs,
                newLbfgsInfo |-> m.newLbfgsInfo,
                gradient |-> m.gradfxs,
                gradientPreconditioned |-> m.gradientPreconditioned,
                failed |-> m.failed,
                objEngs |-> m.objEngs,
                constrEngs |-> m.constrEngs,
                exit |-> IF m.exit = "no" THEN "budget" ELSE m.exit,
                iterations |-> m.i,
                lbfgsCalls |-> m.lbfgsCalls,
                nanGradient |-> m.nanGradient,
                nanEnergy |-> m.nanEnergy,
                updatedAfterNaN |-> m.updatedAfterNaN,
                evalXs |-> m.evalXs,
                updatesAfterEval |-> m.updatesAfterEval,
                t |-> m.t] :
            m \in minLoop(ins, closure, {minStart(xs0, lbfgsInfo)}, numSteps)}

minimize_unchecked(ins, closure, xs0, lbfgsInfo, numSteps) ==
    minimizeLoop(ins, closure, xs0, lbfgsInfo, numSteps)

\* the results of minimize(xs0, f, lbfgsInfo, numSteps)
minimize(ins, closure, xs0, lbfgsInfo, numSteps) ==
    IF numSteps < MIN_STEPS
    THEN {[raised |-> "must step at least MIN_STEPS times in the optimizer"]}
    ELSE minimizeLoop(ins, closure, xs0, lbfgsInfo, numSteps)


-----------------------------------------------------------------------------
(* genOptProblem, step *)

UndefinedNum == [def |-> FALSE, val |-> Num(0)]

\* the Params genOptProblem returns for inputs `ins`
currObjectiveAndGradient_stale(epWeight, frozenValues) ==
    [epWeight |-> initConstraintWeight, frozenValues |-> Frozen(frozenValues)]

\* objectiveAndGradient(epWeight, frozenValues): the oracle, partially applied
currObjectiveAndGradient(epWeight, frozenValues) ==
    [epWeight |-> epWeight, frozenValues |-> Frozen(frozenValues)]

genOptProblem(ins) ==
    LET weight == initConstraintWeight
    IN  [lastGradient |-> repeat(Len(ins), Num(0)),
         lastGradientPreconditioned |-> repeat(Len(ins), Num(0)),
         currObjectiveAndGradient |->
             currObjectiveAndGradient(weight, {}),
         weight |-> weight,
         UOround |-> 0,
         EPround |-> 0,
         optStatus |-> "UnconstrainedRunning",
         lbfgsInfo |-> defaultLbfgsParams,
         lastUOstate |-> Undefined,
         lastUOenergy |-> UndefinedNum,
         lastEPstate |-> Undefined,
         lastEPenergy |-> UndefinedNum,
         lastObjEnergies |-> Undefined,
         lastConstrEnergies |-> Undefined]

\* what step returns or throws; `same` tells that the State returned is the
\* argument itself
\* the result of a call that did not run, or did not finish, minimize
NoMinimize ==
    [exit |-> "no", iterations |-> 0, lbfgsCalls |-> 0, nanGradient |-> FALSE,
     nanEnergy |-> FALSE, updatedAfterNaN |-> FALSE, failed |-> FALSE,
     normGrad |-> Num(0), newLbfgsInfo |-> defaultLbfgsParams,
     evalXs |-> <<>>, updatesAfterEval |-> 0, t |-> Num(0)]

\* `written` are the fields of the argument's own objects the call assigned
Returned(st, same, res, written) ==
    [raised |-> "no", state |-> st, same |-> same, written |-> written,
     call |-> [f \in DOMAIN NoMinimize |-> res[f]]]

Raised(st, error) ==
    [raised |-> error, state |-> st, same |-> TRUE, written |-> {},
     call |-> [NoMinimize EXCEPT !.exit = "throw"]]

optParamsRef_alias == "state.params"

\* const optParams: Params = { ...state.params }: the object the assignments
\* optParams.x = ... of step write to
optParamsRef == "copy of state.params"

Written(fields) == IF optParamsRef = "state.params" THEN fields ELSE {}

stepNewIter_keepOracle(ins, st) ==
    {Returned([st EXCEPT
                 !.params.weight = initConstraintWeight,
                 !.params.UOround = 0,
                 !.params.EPround = 0,
                 !.params.optStatus = "UnconstrainedRunning",
                 !.params.lbfgsInfo = defaultLbfgsParams],
              FALSE, NoMinimize, {})}

stepNewIter(ins, st) ==
    {Returned([st EXCEPT
                 !.params.currObjectiveAndGradient =
                     currObjectiveAndGradient(initConstraintWeight,
                                              st.frozenValues),
                 !.params.weight = initConstraintWeight,
                 !.params.UOround = 0,
                 !.params.EPround = 0,
                 !.params.optStatus = "UnconstrainedRunning",
                 !.params.lbfgsInfo = defaultLbfgsParams],
              FALSE, NoMinimize, {})}

stepUnconstrainedRunning(ins, st, steps) ==
    {IF res.raised # "no" THEN Raised(st, res.raised)
     ELSE
     LET converged == unconstrainedConverged2(res.normGrad)
         optParams ==
             [st.params EXCEPT
                !.lastUOstate = Defined(res.xs),
                !.lastUOenergy = Defined(res.energyVal),
                !.UOround = @ + 1,
                !.lbfgsInfo = IF converged THEN defaultLbfgsParams
                              ELSE res.newLbfgsInfo,
                !.lastGradient = res.gradient,
                !.lastGradientPreconditioned = res.gradientPreconditioned,
                !.lastConstrEnergies = Defined(res.constrEngs),
                !.lastObjEnergies = Defined(res.objEngs),
                !.optStatus = IF res.failed THEN "Error"
                              ELSE IF converged THEN "UnconstrainedConverged"
                              ELSE "UnconstrainedRunning"]
         written == Written({"lastUOstate", "lastUOenergy", "UOround",
                             "lbfgsInfo", "lastGradient",
                             "lastGradientPreconditioned", "lastConstrEnergies",
                             "lastObjEnergies", "optStatus"})
     IN  IF res.failed
         THEN Returned([st EXCEPT !.params = optParams], FALSE, res, written)
         ELSE Returned([st EXCEPT !.varyingValues = res.xs,
                                  !.params = optParams], FALSE, res, written) :
       res \in minimize(ins, st.params.currObjectiveAndGradient,
                        st.varyingValues, st.params.lbfgsInfo, steps)}

growWeight_not(weight) == weight

\* weightGrowthFactor * weight
growWeight(weight) == Mul(Num(weightGrowthFactor), weight)

stepUnconstrainedConverged_eager(ins, st) ==
    LET p == st.params
        optParams ==
            IF /\ p.EPround > 0
               /\ epConverged2(p.lastEPstate.val, p.lastUOstate.val,
                               p.lastEPenergy.val, p.lastUOenergy.val)
            THEN [p EXCEPT !.optStatus = "EPConverged"]
            ELSE [p EXCEPT
                    !.optStatus = "UnconstrainedRunning",
                    !.weight = growWeight(p.weight),
                    !.EPround = @ + 1,
                    !.UOround = 0,
                    !.currObjectiveAndGradient =
                        currObjectiveAndGradient(growWeight(p.weight),
                                                 st.frozenValues)]
    IN  {Returned([st EXCEPT
                     !.params = [optParams EXCEPT
                                   !.lastEPstate = optParams.lastUOstate,
                                   !.lastEPenergy = optParams.lastUOenergy]],
                  FALSE, NoMinimize,
                  Written({"optStatus", "lastEPstate", "lastEPenergy"}
                          \cup IF optParams.optStatus = "EPConverged" THEN {}
                               ELSE {"weight", "EPround", "UOround",
                                     "currObjectiveAndGradient"}))}

stepUnconstrainedConverged(ins, st) ==
    LET p == st.params
        optParams ==
            IF /\ p.EPround > 1
               /\ epConverged2(p.lastEPstate.val, p.lastUOstate.val,
                               p.lastEPenergy.val, p.lastUOenergy.val)
            THEN [p EXCEPT !.optStatus = "EPConverged"]
            ELSE [p EXCEPT
                    !.optStatus = "UnconstrainedRunning",
                    !.weight = growWeight(p.weight),
                    !.EPround = @ + 1,
                    !.UOround = 0,
                    !.currObjectiveAndGradient =
                        currObjectiveAndGradient(growWeight(p.weight),
                                                 st.frozenValues)]
    IN  {Returned([st EXCEPT
                     !.params = [optParams EXCEPT
                                   !.lastEPstate = optParams.lastUOstate,
                                   !.lastEPenergy = optParams.lastUOenergy]],
                  FALSE, NoMinimize,
                  Written({"optStatus", "lastEPstate", "lastEPenergy"}
                          \cup IF optParams.optStatus = "EPConverged" THEN {}
                               ELSE {"weight", "EPround", "UOround",
                                     "currObjectiveAndGradient"}))}

step_restart(ins, st, steps) ==
    CASE st.params.optStatus \in {"NewIter", "EPConverged", "Error"} ->
             stepNewIter(ins, st)
      [] st.params.optStatus = "UnconstrainedRunning" ->
             stepUnconstrainedRunning(ins, st, steps)
      [] st.params.optStatus = "UnconstrainedConverged" ->
             stepUnconstrainedConverged(ins, st)

step_fallthrough(ins, st, steps) ==
    CASE st.params.optStatus = "NewIter" -> stepNewIter(ins, st)
      [] st.params.optStatus \in {"UnconstrainedRunning", "UnconstrainedConverged"} ->
             stepUnconstrainedRunning(ins, st, steps)
      [] st.params.optStatus = "EPConverged" -> {Returned(st, TRUE, NoMinimize, {})}
      [] st.params.optStatus = "Error" -> {Returned(st, TRUE, NoMinimize, {})}

step(ins, st, steps) ==
    CASE st.params.optStatus = "NewIter" -> stepNewIter(ins, st)
      [] st.params.optStatus = "UnconstrainedRunning" ->
             stepUnconstrainedRunning(ins, st, steps)
      [] st.params.optStatus = "UnconstrainedConverged" ->
             stepUnconstrainedConverged(ins, st)
      [] st.params.optStatus = "EPConverged" -> {Returned(st, TRUE, NoMinimize, {})}
      [] st.params.optStatus = "Error" -> {Returned(st, TRUE, NoMinimize, {})}

\* The driver: a caller holds a State and keeps calling step on the State the
\* previous call returned, with any budget.
MaxBudget == 2

MaxUORound == 2

MaxEPround == 3

InitialValues == {<<Num(10), Num(7)>>, <<NaN, Num(7)>>}

InitialInputs == {<<"Optimized", "Optimized">>, <<"Optimized", "Pending">>}

InitialStatus == {"UnconstrainedRunning", "NewIter"}

\* lbfgsInfo of the state handed to the first call: the builder's, or one a
\* caller built by hand with a positive counter and no lastState or lastGrad
InitialLbfgsInfo ==
    {defaultLbfgsParams,
     [defaultLbfgsParams EXCEPT !.numUnconstrSteps = 1],
     [defaultLbfgsParams EXCEPT !.numUnconstrSteps = 1,
                                !.lastState = Defined(<<Num(10), Num(7)>>)],
     [defaultLbfgsParams EXCEPT !.numUnconstrSteps = 1,
                                !.lastGrad = Defined(<<Num(2), Num(-1)>>)]}

Init ==
    /\ inputs \in InitialInputs
    /\ \E xs \in InitialValues, frozenValues \in SUBSET Indices,
          optStatus \in InitialStatus, lbfgsInfo \in InitialLbfgsInfo :
          state = [varyingValues |-> xs,
                   frozenValues |-> frozenValues,
                   params |-> [genOptProblem(inputs) EXCEPT
                                 !.optStatus = optStatus,
                                 !.lbfgsInfo = lbfgsInfo]]
    /\ ret = [kind |-> "init", steps |-> 0, from |-> "none", error |-> "no",
              exit |-> "no", iterations |-> 0, same |-> FALSE,
              written |-> {}, call |-> NoMinimize, validLbfgsInfo |-> TRUE]
    /\ ls = lsIdle
    /\ lb = lbIdle
    /\ oc = ocIdle

Step ==
    \E steps \in 0..MaxBudget :
       /\ state.params.UOround < MaxUORound
       /\ state.params.EPround < MaxEPround
       /\ state.params.lbfgsInfo.numUnconstrSteps + steps <= MaxUnconstrSteps
       /\ \E r \in step(inputs, state, steps) :
             /\ state' = r.state
             /\ ret' = [kind |-> IF r.raised = "no" THEN "returned" ELSE "raised",
                        steps |-> steps,
                        from |-> state.params.optStatus,
                        error |-> r.raised,
                        exit |-> r.call.exit,
                        iterations |-> r.call.iterations,
                        same |-> r.same,
                        written |-> r.written,
                        call |-> r.call,
                        validLbfgsInfo |->
                            validLbfgsInfo(state.params.lbfgsInfo)]
       /\ UNCHANGED <<inputs, ls, lb, oc>>

Next == Step

Spec == Init /\ [][Next]_vars

(* A caller restarts the optimization of a state it holds: it sets the      *)
(* status to NewIter and leaves whatever weight, round counters, oracle and *)
(* L-BFGS history the earlier steps left in params.                         *)
HeldWeights == {Num(1), Num(10), Num(100)}

HeldHistory(xs) ==
    {defaultLbfgsParams,
     [defaultLbfgsParams EXCEPT !.lastState = Defined(xs),
                                !.lastGrad = Defined(<<Num(2), Num(-1)>>),
                                !.numUnconstrSteps = 1]}

NiInit ==
    /\ inputs \in InitialInputs
    /\ \E xs \in InitialValues, frozenValues \in SUBSET Indices,
          bound \in SUBSET Indices, w \in HeldWeights,
          uo \in 0..(MaxUORound - 1), ep \in 0..(MaxEPround - 1) :
       \E info \in HeldHistory(xs) :
          state = [varyingValues |-> xs,
                   frozenValues |-> frozenValues,
                   params |-> [genOptProblem(inputs) EXCEPT
                                 !.optStatus = "NewIter",
                                 !.weight = w,
                                 !.UOround = uo,
                                 !.EPround = ep,
                                 !.currObjectiveAndGradient =
                                     [epWeight |-> w,
                                      frozenValues |-> Frozen(bound)],
                                 !.lbfgsInfo = info]]
    /\ ret = [kind |-> "init", steps |-> 0, from |-> "none", error |-> "no",
              exit |-> "no", iterations |-> 0, same |-> FALSE,
              written |-> {}, call |-> NoMinimize, validLbfgsInfo |-> TRUE]
    /\ ls = lsIdle
    /\ lb = lbIdle
    /\ oc = ocIdle

NiStep ==
    /\ state.params.optStatus = "NewIter"
    /\ Step

NiNext == NiStep

SpecNewIter == NiInit /\ [][NiNext]_vars

-----------------------------------------------------------------------------
(* Properties *)

Terminal == {"EPConverged", "Error"}

\* C1: a call of step on a state whose status is EPConverged or Error, with any
\* budget, returns that very state, every field unchanged, and does not raise:
\* no call leaves a terminal status.
C1_TerminalStickiness ==
    [][state.params.optStatus \in Terminal
         => /\ state' = state
            /\ ret'.kind = "returned"
            /\ ret'.same]_vars

C1_Witness ==
    /\ ret.from \in Terminal
    /\ ret.kind = "returned"
    /\ ret.steps = 0
    /\ state.params.optStatus = "Error"

\* C2: for every index i of frozenValues, varyingValues[i] is the same in the
\* state a call of step returns as in the state it was called on.
C2_FrozenImmutable ==
    [][\A i \in state.frozenValues :
          state'.varyingValues[i] = state.varyingValues[i]]_vars

\* C3: params.weight never decreases over a call of step; a call that leaves
\* UnconstrainedConverged for UnconstrainedRunning returns 10 times the weight,
\* which is strictly greater; every other call leaves the weight unchanged.
C3_MonotoneWeight ==
    [][LET w0 == state.params.weight
           w1 == state'.params.weight
       IN  /\ Ge(w1, w0)
           /\ IF /\ state.params.optStatus = "UnconstrainedConverged"
                 /\ state'.params.optStatus = "UnconstrainedRunning"
              THEN w1 = Mul(Num(10), w0) /\ Gt(w1, w0)
              ELSE w1 = w0]_vars

C3_Witness ==
    /\ ret.from = "UnconstrainedConverged"
    /\ state.params.optStatus = "UnconstrainedRunning"
    /\ state.params.weight = Num(100)

\* C4: in every state step returns, s_list and y_list of params.lbfgsInfo have
\* the same length, at most memSize.
C4_HistoryBound ==
    LET info == state.params.lbfgsInfo
    IN  /\ Len(info.s_list) = Len(info.y_list)
        /\ Len(info.s_list) <= info.memSize

\* a pair was dropped: more updates were made than the history holds
C4_Witness ==
    LET info == state.params.lbfgsInfo
    IN  /\ ret.kind = "returned"
        /\ info.numUnconstrSteps > info.memSize + 1
        /\ Len(info.s_list) = info.memSize

isFrozen(frozenValues, i) == frozenValues.def /\ i \in frozenValues.val

\* C5: the oracle's gradient component i is 0 whenever inputs[i] is not
\* Optimized or i is in the frozen set the oracle was bound with.
C5_GradientMasking ==
    oc.pc = "evaluated" =>
        \A i \in Indices :
            (inputs[i] # "Optimized" \/ isFrozen(oc.frozenValues, i))
                => oc.res.gradf[i] = Num(0)

C5_Witness ==
    /\ oc.pc = "evaluated"
    /\ \E i \in Indices :
          /\ inputs[i] = "Optimized"
          /\ isFrozen(oc.frozenValues, i)
          /\ i \in DOMAIN oc.gradient
          /\ oc.gradient[i] = Num(2)
          /\ oc.res.gradf[i] = Num(0)

\* C6: whatever frozen argument the oracle was bound with (a set, or omitted:
\* no index frozen), its gradient component i is the compiled gradient[i] when
\* that exists, inputs[i] is Optimized and i is not frozen, and 0 otherwise.
C6_GradientPassThrough ==
    oc.pc = "evaluated" =>
        \A i \in Indices :
            oc.res.gradf[i] =
                IF /\ i \in DOMAIN oc.gradient
                   /\ inputs[i] = "Optimized"
                   /\ ~isFrozen(oc.frozenValues, i)
                THEN oc.gradient[i]
                ELSE Num(0)

\* C7: a call of step with steps < 1 raises, whatever the status of the state.
C7_InsufficientStepsRaise ==
    (ret.kind # "init" /\ ret.steps < 1) => ret.kind = "raised"

\* C7 (amended): a call of step with steps < 1 raises exactly when the state
\* is UnconstrainedRunning, the one status that calls minimize; in every other
\* status step returns as it does for any budget.
C7_InsufficientStepsRaiseWhenRunning ==
    (ret.kind # "init" /\ ret.steps < 1) =>
        (ret.kind = "raised" <=> ret.from = "UnconstrainedRunning")

C7_Witness ==
    /\ ret.steps < 1
    /\ ret.kind = "raised"
    /\ ret.from = "UnconstrainedRunning"
    /\ ret.error = "must step at least MIN_STEPS times in the optimizer"

lbReturned == lb.branch \in {"initial", "update"}

C9_ArmijoOrCap ==
    ls.pc = "returned" => (tooManySteps(ls.l.i) \/ ls.armijoAtT = "yes")

C9_Witness ==
    /\ ls.pc = "returned"
    /\ ls.stop = "break"
    /\ ls.l.i > 0
    /\ ~tooManySteps(ls.l.i)

\* C10: a call of step on an UnconstrainedRunning state whose varyingValues
\* contains NaN raises and returns no state.
C10_NaNInStateRaises ==
    [][(state.params.optStatus = "UnconstrainedRunning"
          /\ hasNaN(state.varyingValues))
         => ret'.kind = "raised"]_vars

\* C11: when an evaluation of the oracle at the current point of an inner
\* iteration returned a gradient containing NaN, a call of step that returns
\* returns status Error, and x was not updated after that evaluation.
C11_NaNGradientNoticed ==
    (ret.kind = "returned" /\ ret.call.nanGradient) =>
        /\ state.params.optStatus = "Error"
        /\ ~ret.call.updatedAfterNaN

\* the NaN gradient came after an update of x in the same call
C11_Witness ==
    /\ ret.kind = "returned"
    /\ ret.call.nanGradient
    /\ ret.call.iterations >= 1
    /\ state.params.optStatus = "Error"

\* C12: when an evaluation of the oracle at the current point of an inner
\* iteration returned NaN for the energy, with any gradient, minimize returns
\* failed = true and step returns status Error.
C12_NaNEnergyIsError ==
    (ret.kind = "returned" /\ ret.call.nanEnergy) =>
        /\ ret.call.failed
        /\ state.params.optStatus = "Error"

\* C13: status EPConverged implies EPround >= 2: the first two visits to
\* UnconstrainedConverged grew the weight (by 10 each, from 1).
C13_TwoRoundsBeforeEPConverged ==
    state.params.optStatus = "EPConverged" =>
        /\ state.params.EPround >= 2
        /\ Ge(state.params.weight, Num(100))

C13_Witness ==
    /\ state.params.optStatus = "EPConverged"
    /\ ret.from = "UnconstrainedConverged"
    /\ state.params.EPround = 2

C15_Scalarization ==
    oc.pc = "evaluated" =>
        oc.res.f =
            Add(vsum(oc.res.objEngs),
                Mul(Mul(Num(10000), oc.epWeight),
                    vsum([i \in DOMAIN oc.res.constrEngs |->
                            toPenalty(oc.res.constrEngs[i])])))

\* C16: in every state a call of step from UnconstrainedRunning returns,
\* varyingValues equals params.lastUOstate.
C16_StateSnapshotAgree ==
    (ret.kind = "returned" /\ ret.from = "UnconstrainedRunning") =>
        /\ state.params.lastUOstate.def
        /\ state.varyingValues = state.params.lastUOstate.val

\* C17: a call of step from UnconstrainedConverged returns EPConverged, with
\* weight, EPround, UOround and the oracle unchanged, if and only if
\* EPround > 1 and (|lastUOstate - lastEPstate| < epStop or
\* |lastUOenergy - lastEPenergy| < epStop); otherwise it returns
\* UnconstrainedRunning with 10 times the weight, EPround + 1, UOround = 0 and
\* the oracle bound to the new weight and the state's frozenValues.
C17_EPDecision ==
    [][state.params.optStatus = "UnconstrainedConverged" =>
         LET p == state.params
             q == state'.params
             d == subv(p.lastUOstate.val, p.lastEPstate.val)
             converged ==
                 /\ p.EPround > 1
                 /\ \/ Lt(dot(d, d), Q(1, 1000000))
                    \/ Lt(MathAbs(Sub(p.lastUOenergy.val, p.lastEPenergy.val)),
                          Q(1, 1000))
         IN  IF converged
             THEN /\ q.optStatus = "EPConverged"
                  /\ q.weight = p.weight
                  /\ q.EPround = p.EPround
                  /\ q.UOround = p.UOround
                  /\ q.currObjectiveAndGradient = p.currObjectiveAndGradient
             ELSE /\ q.optStatus = "UnconstrainedRunning"
                  /\ q.weight = Mul(Num(10), p.weight)
                  /\ q.EPround = p.EPround + 1
                  /\ q.UOround = 0
                  /\ q.currObjectiveAndGradient =
                        [epWeight |-> Mul(Num(10), p.weight),
                         frozenValues |-> Frozen(state.frozenValues)]]_vars

\* EP converged on the change of state alone: the energy is NaN
C17_Witness ==
    /\ ret.from = "UnconstrainedConverged"
    /\ state.params.optStatus = "EPConverged"
    /\ NumberIsNaN(state.params.lastEPenergy.val)
    /\ state.params.weight = Num(100)

\* C18: a call of step from UnconstrainedConverged returns for every budget,
\* without running minimize; it leaves varyingValues, lastUOstate, lastUOenergy
\* and lbfgsInfo unchanged and returns lastEPstate = lastUOstate and
\* lastEPenergy = lastUOenergy.
C18_ConvergedSnapshots ==
    [][state.params.optStatus = "UnconstrainedConverged" =>
         LET p == state.params
             q == state'.params
         IN  /\ ret'.kind = "returned"
             /\ ret'.call.exit = "no"
             /\ ret'.call.iterations = 0
             /\ ret'.call.lbfgsCalls = 0
             /\ state'.varyingValues = state.varyingValues
             /\ q.lastUOstate = p.lastUOstate
             /\ q.lastUOenergy = p.lastUOenergy
             /\ q.lbfgsInfo = p.lbfgsInfo
             /\ q.lastEPstate = q.lastUOstate
             /\ q.lastEPenergy = q.lastUOenergy]_vars

C18_Witness ==
    /\ ret.from = "UnconstrainedConverged"
    /\ ret.kind = "returned"
    /\ ret.steps = 0
    /\ state.params.lastEPstate = state.params.lastUOstate
    /\ state.params.lastEPstate.def

\* C19: a call of step from UnconstrainedRunning that returns increments
\* UOround by 1; it returns Error if minimize reported failed, otherwise
\* UnconstrainedConverged if normGrad < 0.01 and UnconstrainedRunning if not;
\* with UnconstrainedConverged lbfgsInfo is defaultLbfgsParams, with
\* UnconstrainedRunning it is the L-BFGS state minimize returned.
C19_InnerRoundStatus ==
    [][(state.params.optStatus = "UnconstrainedRunning" /\ ret'.kind = "returned") =>
         LET q == state'.params
         IN  /\ q.UOround = state.params.UOround + 1
             /\ q.optStatus =
                   IF ret'.call.failed THEN "Error"
                   ELSE IF Lt(ret'.call.normGrad, Q(1, 100))
                        THEN "UnconstrainedConverged"
                        ELSE "UnconstrainedRunning"
             /\ q.optStatus = "UnconstrainedConverged"
                   => q.lbfgsInfo = defaultLbfgsParams
             /\ q.optStatus = "UnconstrainedRunning"
                   => q.lbfgsInfo = ret'.call.newLbfgsInfo]_vars

C19_Witness ==
    /\ ret.from = "UnconstrainedRunning"
    /\ ret.kind = "returned"
    /\ ret.call.iterations >= 1
    /\ state.params.optStatus = "UnconstrainedConverged"
    /\ state.params.lbfgsInfo = defaultLbfgsParams

\* C20: a call step(state, steps) from UnconstrainedRunning makes at most
\* `steps` updates of x and at most `steps` calls of lbfgs, and its loop ends
\* (budget spent, early break, or failure); from every other status it makes
\* no inner iteration.
C20_StepBudget ==
    ret.kind = "returned" =>
        IF ret.from = "UnconstrainedRunning"
        THEN /\ ret.call.iterations <= ret.steps
             /\ ret.call.lbfgsCalls <= ret.steps
             /\ ret.call.exit \in {"budget", "break", "failed"}
        ELSE /\ ret.call.iterations = 0
             /\ ret.call.lbfgsCalls = 0
             /\ ret.call.exit = "no"

C20_Witness ==
    /\ ret.kind = "returned"
    /\ ret.from = "UnconstrainedRunning"
    /\ ret.steps = 2
    /\ ret.call.iterations = 2
    /\ ret.call.exit = "budget"

(* C21: a step from NewIter runs no inner iteration and evaluates no        *)
(* oracle, whatever the budget; it leaves varyingValues and frozenValues    *)
(* alone and returns UnconstrainedRunning with weight =                     *)
(* initConstraintWeight, UOround = 0, EPround = 0, the default L-BFGS       *)
(* state and the oracle bound to (initConstraintWeight, state.frozenValues),*)
(* whatever weight, rounds, oracle and history the input state held.        *)
C21_NewIterTransition ==
    [][state.params.optStatus = "NewIter" =>
          /\ ret'.kind = "returned"
          /\ ret'.call.exit = "no"
          /\ ret'.call.iterations = 0
          /\ ret'.call.lbfgsCalls = 0
          /\ state'.varyingValues = state.varyingValues
          /\ state'.frozenValues = state.frozenValues
          /\ state'.params.optStatus = "UnconstrainedRunning"
          /\ state'.params.weight = initConstraintWeight
          /\ state'.params.UOround = 0
          /\ state'.params.EPround = 0
          /\ state'.params.lbfgsInfo = defaultLbfgsParams
          /\ state'.params.currObjectiveAndGradient =
                 [epWeight |-> initConstraintWeight,
                  frozenValues |-> Frozen(state.frozenValues)]
          /\ \A f \in DOMAIN state.params \
                   {"optStatus", "weight", "UOround", "EPround", "lbfgsInfo",
                    "currObjectiveAndGradient"} :
                 state'.params[f] = state.params[f]]_vars

C21_Witness ==
    /\ ret.kind = "returned"
    /\ ret.from = "NewIter"
    /\ ret.steps = MaxBudget
    /\ state.frozenValues = {1}
    /\ state.params.currObjectiveAndGradient.frozenValues = Frozen({1})
    /\ state.params.optStatus = "UnconstrainedRunning"

(* C22: the line search terminates for every oracle.  While it runs, the    *)
(* number of trial evaluations equals the number of completed bracket       *)
(* updates; it never evaluates the oracle at more than maxSteps + 1 trial   *)
(* points; as soon as |b - a| < minInterval or the number of updates        *)
(* exceeds maxSteps the next thing it does is return, without another       *)
(* evaluation; and what it returns is the most recent t.                    *)
C22_LineSearchTerminates ==
    [][ /\ ls'.evals <= maxSteps + 1
        /\ ls'.pc = "loop" => ls'.evals = ls'.l.i
        /\ (ls.pc = "loop" /\ shouldStop(ls.l.i, ls.l.a, ls.l.b)) =>
              /\ ls'.pc = "returned"
              /\ ls'.evals = ls.evals
              /\ ls'.l.t = ls.l.t
        /\ (ls.pc = "loop" /\ ~shouldStop(ls.l.i, ls.l.a, ls.l.b)) =>
              /\ ls'.evals = ls.evals + 1
              /\ ls'.pc = "returned" => ls'.l.t = ls.l.t
              /\ ls'.pc = "loop" => ls'.l.i = ls.l.i + 1
        /\ ls.pc = "returned" => ls' = ls ]_vars

C22_Witness ==
    /\ ls.pc = "returned"
    /\ ls.stop = "tooManySteps"
    /\ ls.evals = maxSteps + 1

(* C23: at every trial evaluation and at the return, 0 <= a < t < b, with b *)
(* possibly infinite; the returned t is strictly positive and finite.  The  *)
(* bracket moves by b <- t when Armijo fails and a <- t when Armijo holds   *)
(* and weak Wolfe fails, then t <- (a + b) / 2 if b is finite, else 2a.     *)
C23_BracketInvariant ==
    ls.pc \in {"loop", "returned"} =>
        /\ Le(Num(0), ls.l.a)
        /\ Lt(ls.l.a, ls.l.t)
        /\ Lt(ls.l.t, ls.l.b)
        /\ Gt(ls.l.t, Num(0))
        /\ Lt(ls.l.t, Infinity)
        /\ Lt(ls.l.b, Infinity) => ls.l.t = Half(Add(ls.l.a, ls.l.b))
        /\ (~Lt(ls.l.b, Infinity) /\ ls.l.i > 0) =>
              ls.l.t = Mul(Num(2), ls.l.a)

\* the bracket was moved from both sides: a doubling, then a bisection
C23_Witness ==
    /\ ls.pc = "returned"
    /\ Gt(ls.l.a, Num(0))
    /\ Lt(ls.l.b, Infinity)
    /\ ls.l.i > 2

(* C24: in a non-initial call of lbfgs, when the two-loop result gPre has   *)
(* <-gPre, g> > 0 the call takes the reset branch (it never returns that    *)
(* gPre), and the reset branch returns the raw gradient g as preconditioned *)
(* gradient and a state with empty s_list and y_list, numUnconstrSteps = 1, *)
(* lastState = x, lastGrad = g and everything else, memSize included, as it *)
(* was.                                                                     *)
C24_ResetOnNonDescent ==
    [][ /\ lb'.branch = "reset" =>
              /\ lb.info.numUnconstrSteps > 0
              /\ lb'.gradfxsPreconditioned = lb'.gradfxs
              /\ lb'.info = [lb.info EXCEPT !.s_list = <<>>,
                                            !.y_list = <<>>,
                                            !.numUnconstrSteps = 1,
                                            !.lastState = Defined(lb'.xs),
                                            !.lastGrad = Defined(lb'.gradfxs)]
        /\ lb'.branch = "update" =>
              ~Gt(Neg(dot(lb'.gradfxsPreconditioned, lb'.gradfxs)), Num(0))
      ]_vars

\* a reset in a call with the largest memory
C24_Witness ==
    /\ lb.branch = "reset"
    /\ lb.info.memSize = MemSize
    /\ lb.info.s_list = <<>>
    /\ lb.info.numUnconstrSteps = 1
    /\ lb.gradfxs = <<Num(-1), Num(1)>>

(* C25: a step from an UnconstrainedRunning state whose lbfgsInfo has       *)
(* numUnconstrSteps > 0 but no lastState or no lastGrad raises instead of   *)
(* returning a state; and a step on a state whose lbfgsInfo is not of that  *)
(* kind never raises "Invalid L-BFGS state" and never leaves such an        *)
(* lbfgsInfo, so starting from the builder's state or through NewIter the   *)
(* error is never raised.                                                   *)
C25_InvalidLbfgsState ==
    ret.kind # "init" =>
        /\ (~ret.validLbfgsInfo /\ ret.from = "UnconstrainedRunning") =>
              ret.kind = "raised"
        /\ ret.validLbfgsInfo =>
              /\ validLbfgsInfo(state.params.lbfgsInfo)
              /\ ret.error # "Invalid L-BFGS state"

C25_Witness ==
    /\ ret.kind = "raised"
    /\ ret.error = "Invalid L-BFGS state"
    /\ ~ret.validLbfgsInfo
    /\ state.params.lbfgsInfo.lastState.def
    /\ ret.steps = MaxBudget

RECURSIVE Power(_, _)
Power(base, n) == IF n = 0 THEN Num(1) ELSE Mul(Num(base), Power(base, n - 1))

(* C26: in every state of a run that starts from the builder's state,       *)
(* params.weight = initConstraintWeight * weightGrowthFactor ^ EPround, and *)
(* params.currObjectiveAndGradient is the oracle bound to exactly the       *)
(* current params.weight.                                                   *)
C26_WeightCoherence ==
    /\ state.params.weight =
          Mul(initConstraintWeight,
              Power(weightGrowthFactor, state.params.EPround))
    /\ state.params.currObjectiveAndGradient.epWeight = state.params.weight

\* an inner round that ran under the weight of the second penalty round
C26_Witness ==
    /\ ret.kind = "returned"
    /\ ret.from = "UnconstrainedRunning"
    /\ ret.iterations > 0
    /\ state.params.EPround = 2
    /\ state.params.currObjectiveAndGradient.epWeight = Num(100)

(* C27: a step from UnconstrainedRunning returns UnconstrainedConverged     *)
(* exactly when minimize left its loop through the early-convergence break; *)
(* then x was not updated after the last evaluation of energy and gradient, *)
(* so varyingValues and lastUOstate are the point of that evaluation.  When *)
(* the loop used up its budget, the returned x is one update ahead of the   *)
(* point where the returned energy and normGrad were evaluated.             *)
C27_ConvergedSnapshot ==
    (ret.kind = "returned" /\ ret.from = "UnconstrainedRunning") =>
        LET p == state.params
            c == ret.call
        IN  /\ p.optStatus = "UnconstrainedConverged" <=> c.exit = "break"
            /\ c.exit \in {"break", "budget", "failed"}
            /\ c.exit = "break" =>
                  /\ c.updatesAfterEval = 0
                  /\ p.lastUOstate = Defined(c.evalXs)
                  /\ state.varyingValues = c.evalXs
            /\ c.exit = "budget" =>
                  /\ c.updatesAfterEval = 1
                  /\ c.iterations = ret.steps
                  /\ state.varyingValues = p.lastUOstate.val
                  /\ p.lastUOstate.val =
                        [j \in DOMAIN c.evalXs |->
                           Sub(c.evalXs[j],
                               Mul(c.t, p.lastGradientPreconditioned[j]))]

\* the budget ran out one update past the evaluated point, which moved
C27_Witness ==
    /\ ret.kind = "returned"
    /\ ret.from = "UnconstrainedRunning"
    /\ ret.call.exit = "budget"
    /\ ret.steps = MaxBudget
    /\ state.params.optStatus = "UnconstrainedRunning"
    /\ state.varyingValues # ret.call.evalXs

StatusEdges ==
    {<<"NewIter", "UnconstrainedRunning">>,
     <<"UnconstrainedRunning", "UnconstrainedRunning">>,
     <<"UnconstrainedRunning", "UnconstrainedConverged">>,
     <<"UnconstrainedRunning", "Error">>,
     <<"UnconstrainedConverged", "UnconstrainedRunning">>,
     <<"UnconstrainedConverged", "EPConverged">>,
     <<"EPConverged", "EPConverged">>,
     <<"Error", "Error">>}

(* C28: a call of step takes optStatus only along NewIter ->                *)
(* UnconstrainedRunning; UnconstrainedRunning -> UnconstrainedRunning,      *)
(* UnconstrainedConverged or Error; UnconstrainedConverged ->               *)
(* UnconstrainedRunning or EPConverged; EPConverged -> EPConverged; Error   *)
(* -> Error.  So it never returns NewIter, never returns                    *)
(* UnconstrainedConverged twice in a row, and enters Error only from        *)
(* UnconstrainedRunning; a call that raises leaves the status as it was.    *)
C28_StatusTransitions ==
    ret.kind # "init" =>
        /\ <<ret.from, state.params.optStatus>> \in StatusEdges
        /\ ret.kind = "raised" => state.params.optStatus = ret.from

C28_Witness ==
    /\ ret.kind = "returned"
    /\ ret.from = "UnconstrainedRunning"
    /\ ret.steps = 1
    /\ state.params.optStatus = "Error"
    /\ state.params.EPround = 1

Min(a, b) == IF a <= b THEN a ELSE b

(* C29: after every call of lbfgs that returns, numUnconstrSteps >= 1,      *)
(* lastState = x and lastGrad = g are defined, and s_list and y_list both   *)
(* have min(numUnconstrSteps - 1, memSize) entries.  The initial call       *)
(* (counter 0) returns gPre = g with empty lists and counter 1; a call that *)
(* takes the update branch puts the newest pair (x - lastState, g -         *)
(* lastGrad) in front of the old ones, drops what lies beyond memSize, and  *)
(* adds 1 to the counter.                                                   *)
C29_HistoryTracksCounter ==
    [][ lb'.branch \in {"initial", "reset", "update"} =>
          LET old == lb.info
              new == lb'.info
          IN  /\ new.numUnconstrSteps >= 1
              /\ new.lastState = Defined(lb'.xs)
              /\ new.lastGrad = Defined(lb'.gradfxs)
              /\ new.memSize = old.memSize
              /\ Len(new.s_list) = Min(new.numUnconstrSteps - 1, new.memSize)
              /\ Len(new.y_list) = Len(new.s_list)
              /\ old.numUnconstrSteps = 0 =>
                    /\ lb'.branch = "initial"
                    /\ lb'.gradfxsPreconditioned = lb'.gradfxs
                    /\ new.s_list = <<>>
                    /\ new.numUnconstrSteps = 1
              /\ lb'.branch = "initial" => old.numUnconstrSteps = 0
              /\ lb'.branch = "update" =>
                    /\ new.numUnconstrSteps = old.numUnconstrSteps + 1
                    /\ new.s_list[1] = subv(lb'.xs, old.lastState.val)
                    /\ new.y_list[1] = subv(lb'.gradfxs, old.lastGrad.val)
                    /\ \A k \in 2..Len(new.s_list) :
                          /\ new.s_list[k] = old.s_list[k - 1]
                          /\ new.y_list[k] = old.y_list[k - 1]
      ]_vars

\* an update that dropped the oldest pair of a full history
C29_Witness ==
    /\ lb.branch = "update"
    /\ lb.info.numUnconstrSteps = lb.info.memSize + 2
    /\ Len(lb.info.s_list) = lb.info.memSize
    /\ lb.info.s_list[1] # lb.info.s_list[lb.info.memSize]

====
